---- MODULE Spec2Model ----
(***************************************************************************)
(* The camera capture controller of src/components/SnapShotCapture.tsx:    *)
(* the React component state (stream, isCameraActive, message, error), the *)
(* video element's srcObject, the canvas, the media streams the platform   *)
(* has granted, and every startCamera call with its two awaits.            *)
(*                                                                         *)
(* A step is one JavaScript task: an event handler or the continuation of  *)
(* an await, together with the render and the effect cleanup that the      *)
(* state updates of that task cause.                                       *)
(***************************************************************************)
EXTENDS Integers, FiniteSets, Sequences, TLC

\* Number of startCamera invocations in one run; the stream that
\* getUserMedia grants to call c is stream c.
MaxCalls == 3
\* Largest videoWidth / videoHeight the video element reports.
MaxDim == 1

Calls == 1..MaxCalls
Dims == 0..MaxDim

\* stream === null, videoRef.current.srcObject === null
NoStream == 0
\* error === null
NoError == "null"

MsgInitial == "Click 'Start Camera' to begin."
MsgAttempting == "Attempting to access camera..."
MsgActive == "Camera active. Say cheese!"
MsgFailed == "Camera failed to start."
MsgStopped == "Camera stopped. Click 'Start Camera' to restart."
MsgCaptured == "Snapshot captured and downloaded successfully!"

ErrCamera == "Camera access denied or unavailable. Please check permissions or try again."
ErrNotActive == "Camera is not active or references are missing."
ErrZeroDim == "Video stream is not ready or has zero dimensions."
ErrNoContext == "Could not get 2D rendering context from canvas."

VARIABLES
  mounted,            \* the component is mounted (videoRef/canvasRef are set)
  stream,             \* useState stream: NoStream or the held stream
  isCameraActive,     \* useState isCameraActive
  message,            \* useState message
  error,              \* useState error
  srcObject,          \* videoRef.current.srcObject
  canvas,             \* <<canvas.width, canvas.height>>
  pc,                 \* per startCamera call: "new", "gum", "play", "done"
  trackState,         \* per granted stream: "none", "live", "ended"
  stored,             \* per stream: setStream(newStream) took effect
  stopsByStopCamera,  \* per stream: track.stop() calls made by stopCamera
  stopsByCleanup,     \* per stream: track.stop() calls made by the effect cleanup
  fromIdle,           \* per call: it was invoked with active=false and no handle
  lastOp,             \* the operation or continuation that ran last
  lastCall,           \* the startCamera call lastOp belongs to (0: none)
  downloadInvoked,    \* lastOp called downloadImage
  lastStart           \* the most recent of: start completed, stop took effect, teardown

vars == <<mounted, stream, isCameraActive, message, error, srcObject, canvas, pc,
          trackState, stored, stopsByStopCamera, stopsByCleanup, fromIdle,
          lastOp, lastCall, downloadInvoked, lastStart>>

session == <<stream, isCameraActive>>
status == <<message, error>>
tracks == <<trackState, stopsByStopCamera, stopsByCleanup>>

Init ==
  /\ mounted = TRUE
  /\ stream = NoStream
  /\ isCameraActive = FALSE
  /\ message = MsgInitial
  /\ error = NoError
  /\ srcObject = NoStream
  /\ canvas = <<0, 0>>
  /\ pc = [c \in Calls |-> "new"]
  /\ trackState = [c \in Calls |-> "none"]
  /\ stored = [c \in Calls |-> FALSE]
  /\ stopsByStopCamera = [c \in Calls |-> 0]
  /\ stopsByCleanup = [c \in Calls |-> 0]
  /\ fromIdle = [c \in Calls |-> FALSE]
  /\ lastOp = "init"
  /\ lastCall = 0
  /\ downloadInvoked = FALSE
  /\ lastStart = "none"

Pending == {c \in Calls : pc[c] \in {"gum", "play"}}
NewCalls == {c \in Calls : pc[c] = "new"}
Live == {c \in Calls : trackState[c] = "live"}

\* stream.getTracks().forEach(track => track.stop()): stopping a stopped track
\* leaves it stopped.
StopTracks(ts, s) == [ts EXCEPT ![s] = "ended"]


\* A state setter of an unmounted component changes nothing.
SetState(cur, new) == IF mounted THEN new ELSE cur

\* Mutant: an effect with an empty dependency list, whose cleanup closes over
\* the initial stream (null) and so stops nothing.
CleanupStopsNever(old) == FALSE

\* useEffect(() => () => { if (stream) stop its tracks }, [stream]):
\* the cleanup closes over the stream of the render that installed it.
CleanupStops(old) == old # NoStream

\* The effect cleanup as run by a commit that takes the stream state from
\* old to new: it runs when the dependency [stream] changed.
TracksAfterCommit(ts, old, new) ==
  IF old # new /\ CleanupStops(old) THEN StopTracks(ts, old) ELSE ts

CleanupCallsAfterCommit(n, old, new) ==
  IF old # new /\ CleanupStops(old) THEN [n EXCEPT ![old] = @ + 1] ELSE n

(***************************************************************************)
(* startCamera, up to its first await.                                     *)
(***************************************************************************)
startCamera ==
  /\ mounted
  /\ NewCalls # {}
  /\ LET c == CHOOSE x \in NewCalls : \A y \in NewCalls : x <= y IN
       /\ pc' = [pc EXCEPT ![c] = "gum"]
       /\ fromIdle' = [fromIdle EXCEPT ![c] = (~isCameraActive /\ stream = NoStream)]
       /\ lastCall' = c
  /\ error' = NoError
  /\ message' = MsgAttempting
  /\ lastOp' = "startCamera"
  /\ downloadInvoked' = FALSE
  /\ UNCHANGED <<mounted, session, srcObject, canvas, tracks, stored, lastStart>>

\* getUserMedia resolves with a new stream; it is bound to the video element
\* and play() is awaited. Without a video element the call goes on to the setters.
GumResolve(c) ==
  /\ pc[c] = "gum"
  /\ trackState' = [trackState EXCEPT ![c] = "live"]
  /\ IF mounted
       THEN /\ srcObject' = c
            /\ pc' = [pc EXCEPT ![c] = "play"]
       ELSE /\ srcObject' = srcObject
            /\ pc' = [pc EXCEPT ![c] = "done"]
  /\ lastOp' = "gumResolved"
  /\ lastCall' = c
  /\ downloadInvoked' = FALSE
  /\ UNCHANGED <<mounted, session, status, canvas, stored, stopsByStopCamera,
                 stopsByCleanup, fromIdle, lastStart>>

\* Mutant: a catch block that does not reset the flag.
CatchActiveKept == isCameraActive

\* setIsCameraActive(false) of the catch block
CatchActive == FALSE

\* The catch block of startCamera.
Catch(c) ==
  /\ pc' = [pc EXCEPT ![c] = "done"]
  /\ error' = SetState(error, ErrCamera)
  /\ message' = SetState(message, MsgFailed)
  /\ isCameraActive' = SetState(isCameraActive, CatchActive)
  /\ lastStart' = IF mounted THEN "failed" ELSE lastStart
  /\ lastOp' = "startCameraFailed"
  /\ lastCall' = c
  /\ downloadInvoked' = FALSE
  /\ UNCHANGED <<mounted, stream, srcObject, canvas, tracks, stored, fromIdle>>

\* getUserMedia rejects: permission denied or no camera.
GumReject(c) ==
  /\ pc[c] = "gum"
  /\ Catch(c)

\* play() rejects after the stream was bound to the video element.
PlayReject(c) ==
  /\ pc[c] = "play"
  /\ Catch(c)

\* play() resolves: setStream(newStream), setIsCameraActive(true), and the
\* commit runs the cleanup of the effect installed for the previous stream.
PlayResolve(c) ==
  /\ pc[c] = "play"
  /\ pc' = [pc EXCEPT ![c] = "done"]
  /\ stream' = SetState(stream, c)
  /\ isCameraActive' = SetState(isCameraActive, TRUE)
  /\ message' = SetState(message, MsgActive)
  /\ stored' = [stored EXCEPT ![c] = mounted]
  /\ trackState' = TracksAfterCommit(trackState, stream, stream')
  /\ stopsByCleanup' = CleanupCallsAfterCommit(stopsByCleanup, stream, stream')
  /\ lastStart' = IF mounted THEN "ok" ELSE lastStart
  /\ lastOp' = "startCameraOk"
  /\ lastCall' = c
  /\ downloadInvoked' = FALSE
  /\ UNCHANGED <<mounted, error, srcObject, canvas, stopsByStopCamera, fromIdle>>

\* Mutant: stopCamera leaves the stopped stream bound to the video element.
StopCameraSrcObjectKept == srcObject

\* videoRef.current.srcObject = null of stopCamera
StopCameraSrcObject == NoStream

(***************************************************************************)
(* stopCamera, and the commit of its setStream(null).                      *)
(***************************************************************************)
stopCamera ==
  /\ mounted
  /\ IF stream # NoStream
       THEN /\ stopsByStopCamera' = [stopsByStopCamera EXCEPT ![stream] = @ + 1]
            /\ srcObject' = StopCameraSrcObject
            /\ stream' = NoStream
            /\ isCameraActive' = FALSE
            /\ message' = MsgStopped
            /\ error' = NoError
            /\ trackState' = TracksAfterCommit(StopTracks(trackState, stream), stream, stream')
            /\ stopsByCleanup' = CleanupCallsAfterCommit(stopsByCleanup, stream, stream')
            /\ lastStart' = "stopped"
       ELSE UNCHANGED <<session, status, srcObject, tracks, lastStart>>
  /\ lastOp' = "stopCamera"
  /\ lastCall' = 0
  /\ downloadInvoked' = FALSE
  /\ UNCHANGED <<mounted, canvas, pc, stored, fromIdle>>

\* Mutant: the guard checks the refs only.
SnapshotNotReadyRefsOnly == ~mounted

\* if (!isCameraActive || !videoRef.current || !canvasRef.current)
SnapshotNotReady == ~isCameraActive \/ ~mounted

(***************************************************************************)
(* takeSnapshot; w, h are video.videoWidth and video.videoHeight, ctx is   *)
(* whether canvas.getContext('2d') returns a context.                      *)
(***************************************************************************)
takeSnapshot(w, h, ctx) ==
  /\ mounted
  /\ IF SnapshotNotReady
       THEN /\ error' = ErrNotActive
            /\ downloadInvoked' = FALSE
            /\ UNCHANGED <<message, canvas>>
       ELSE /\ canvas' = <<w, h>>
            /\ IF w = 0 \/ h = 0
                 THEN /\ error' = ErrZeroDim
                      /\ downloadInvoked' = FALSE
                      /\ UNCHANGED message
                 ELSE IF ~ctx
                   THEN /\ error' = ErrNoContext
                        /\ downloadInvoked' = FALSE
                        /\ UNCHANGED message
                   ELSE /\ downloadInvoked' = TRUE
                        /\ message' = MsgCaptured
                        /\ UNCHANGED error
  /\ lastOp' = "takeSnapshot"
  /\ lastCall' = 0
  /\ UNCHANGED <<mounted, session, srcObject, pc, tracks, stored, fromIdle, lastStart>>

\* The frame sizes a video element can report: zero with no media bound,
\* and width and height zero together.
FrameSizes ==
  {d \in Dims \X Dims : /\ (d[1] = 0) <=> (d[2] = 0)
                        /\ srcObject = NoStream => d[1] = 0}

(***************************************************************************)
(* Teardown: the component unmounts, the effect cleanup runs, the refs are *)
(* cleared.                                                                *)
(***************************************************************************)
Unmount ==
  /\ mounted
  /\ mounted' = FALSE
  /\ trackState' = IF CleanupStops(stream) THEN StopTracks(trackState, stream) ELSE trackState
  /\ stopsByCleanup' = IF CleanupStops(stream)
                         THEN [stopsByCleanup EXCEPT ![stream] = @ + 1]
                         ELSE stopsByCleanup
  /\ lastStart' = "torndown"
  /\ lastOp' = "teardown"
  /\ lastCall' = 0
  /\ downloadInvoked' = FALSE
  /\ UNCHANGED <<session, status, srcObject, canvas, pc, stored, stopsByStopCamera, fromIdle>>

(***************************************************************************)
(* The buttons.                                                            *)
(***************************************************************************)
\* onClick={isCameraActive ? stopCamera : startCamera}; the button has no
\* disabled attribute.
ClickStart == mounted /\ ~isCameraActive /\ startCamera
ClickStop == mounted /\ isCameraActive /\ stopCamera

\* onClick={takeSnapshot} disabled={!isCameraActive}
SnapshotButtonEnabled == mounted /\ isCameraActive
ClickSnapshot ==
  /\ SnapshotButtonEnabled
  /\ \E d \in FrameSizes, ctx \in BOOLEAN : takeSnapshot(d[1], d[2], ctx)

GetUserMediaResolves == \E c \in Calls : GumResolve(c)
GetUserMediaRejects == \E c \in Calls : GumReject(c)
PlayResolves == \E c \in Calls : PlayResolve(c)
PlayRejects == \E c \in Calls : PlayReject(c)

\* The component as the user drives it.
Next ==
  \/ ClickStart
  \/ ClickStop
  \/ ClickSnapshot
  \/ GetUserMediaResolves
  \/ GetUserMediaRejects
  \/ PlayResolves
  \/ PlayRejects
  \/ Unmount

Spec == Init /\ [][Next]_vars

\* The controller's operations invoked directly, without the buttons' gating.
CallStartCamera == startCamera
CallStopCamera == stopCamera
CallTakeSnapshot == \E d \in FrameSizes, ctx \in BOOLEAN : takeSnapshot(d[1], d[2], ctx)

NextAPI ==
  \/ CallStartCamera
  \/ CallStopCamera
  \/ CallTakeSnapshot
  \/ GetUserMediaResolves
  \/ GetUserMediaRejects
  \/ PlayResolves
  \/ PlayRejects
  \/ Unmount

SpecAPI == Init /\ [][NextAPI]_vars


(***************************************************************************)
(* Properties.                                                             *)
(***************************************************************************)
ClickOps == {"startCamera", "stopCamera", "takeSnapshot"}
StopCalls(c) == stopsByStopCamera[c] + stopsByCleanup[c]

\* C1: in every reachable state, isCameraActive is true if and only if a
\* stream handle is held.
ActiveIffHandleHeld == isCameraActive <=> stream # NoStream

\* C2: at most one stream granted to this controller has tracks that have
\* not been stopped.
AtMostOneOpenStream == Cardinality(Live) <= 1

\* C3 as stated: every track of a stored stream is stopped by stopCamera or
\* by the effect cleanup, never by both, and after teardown it has been
\* stopped exactly once.
StoppedExactlyOnce ==
  \A c \in Calls : stored[c] =>
    /\ StopCalls(c) <= 1
    /\ ~mounted => StopCalls(c) = 1

\* C3 as amended: a stored stream is live exactly while it is the held stream
\* of the mounted component; once it is replaced, cleared or the component
\* unmounts, its tracks are stopped and the effect cleanup has called stop()
\* on them exactly once; stopCamera calls stop() at most once, and then the
\* cleanup of the same commit calls it again on the stopped tracks. So a
\* teardown with no stopCamera before it calls stop() exactly once.
StoppedOnceByCleanup ==
  \A c \in Calls : stored[c] =>
    /\ stopsByStopCamera[c] <= 1
    /\ stopsByStopCamera[c] = 1 => stopsByCleanup[c] = 1
    /\ IF mounted /\ stream = c
         THEN trackState[c] = "live" /\ StopCalls(c) = 0
         ELSE trackState[c] = "ended" /\ stopsByCleanup[c] = 1

TeardownStoppedActiveSession ==
  /\ ~mounted
  /\ lastOp = "teardown"
  /\ \E c \in Calls :
       /\ stored[c] /\ stream = c /\ trackState[c] = "ended"
       /\ stopsByStopCamera[c] = 0 /\ stopsByCleanup[c] = 1

\* C4: a startCamera call that was invoked from Idle and fails leaves the
\* controller Idle: not active, no handle held, the camera error shown.
FailedStartFromIdleEndsIdle ==
  (lastOp = "startCameraFailed" /\ mounted /\ fromIdle[lastCall]) =>
    /\ ~isCameraActive
    /\ stream = NoStream
    /\ error = ErrCamera

\* C5: stopCamera with a session active stops the tracks of the held stream,
\* clears srcObject, releases the handle and clears the flag.
StopCameraReleases ==
  [][(lastOp' = "stopCamera" /\ isCameraActive) =>
       /\ stream # NoStream
       /\ trackState'[stream] = "ended"
       /\ srcObject' = NoStream
       /\ stream' = NoStream
       /\ ~isCameraActive']_vars

StoppedFromActive ==
  /\ lastOp = "stopCamera"
  /\ stream = NoStream /\ ~isCameraActive /\ srcObject = NoStream
  /\ \E c \in Calls : stopsByStopCamera[c] = 1 /\ trackState[c] = "ended"

\* C6: stopCamera with isCameraActive false changes neither the handle, the
\* flag, the status nor any track.
StopWhenInactiveChangesNothing ==
  [][(lastOp' = "stopCamera" /\ ~isCameraActive) =>
       UNCHANGED <<session, status, tracks>>]_vars

\* C7: takeSnapshot with isCameraActive false sets the not-active error,
\* does not call downloadImage and leaves the handle and the flag alone.
SnapshotWhenInactiveFails ==
  [][(lastOp' = "takeSnapshot" /\ ~isCameraActive) =>
       /\ error' = ErrNotActive
       /\ ~downloadInvoked'
       /\ UNCHANGED session]_vars

SnapshotRefusedWithFrame ==
  /\ lastOp = "takeSnapshot"
  /\ ~isCameraActive
  /\ error = ErrNotActive
  /\ srcObject # NoStream /\ trackState[srcObject] = "live"

NoOperationWhilePending ==
  [][Pending # {} => lastOp' \notin ClickOps]_vars

\* C10: after teardown, with no call left to resolve, no stream granted to
\* this controller has a live track.
NoLiveStreamAfterTeardown ==
  (~mounted /\ Pending = {}) => Live = {}

====
